---- MODULE Spec2Model ----
(***************************************************************************)
(* A model of two parts of mech-util:                                      *)
(*                                                                         *)
(*   - schemas/interface_contract.py: one InterfaceContract instance, a    *)
(*     pydantic BaseModel with the default configuration (no frozen=True,  *)
(*     no validate_assignment, no validators), so its operations are       *)
(*     construction and plain attribute assignment;                        *)
(*   - tools/prompt_manager.py: one PromptManager instance over a prompts  *)
(*     directory, with load_prompt, clear_cache and the files on disk.     *)
(*                                                                         *)
(* Strings that the code takes apart (prompt ids, path segments) are       *)
(* sequences of one-character strings, so that split and join are          *)
(* computed and not assumed.                                               *)
(***************************************************************************)
EXTENDS Integers, Sequences, FiniteSets, TLC

VARIABLES
    \* ---- InterfaceContract (interface_contract.py:66-143)
    is_frozen,          \* bool, default False
    frozen_at,          \* Optional[datetime]: NoTime (None) or a timestamp
    coordinate_frame,   \* Optional[CoordinateFrame]
    geometric_spec,     \* dict[str, Any]
    tolerance,          \* Optional[str]
    ic_op,              \* the last operation on the contract: the field
                        \* assigned and the value the caller gave
    ic_raised,          \* the exception that operation raised, or "none"
    \* ---- PromptManager (prompt_manager.py:38-248)
    disk,               \* the files under prompts_dir: path -> file content
    cache,              \* self._cache: prompt_id -> PromptTemplate object
    next_obj,           \* identity of the next PromptTemplate object built
    call,               \* the last PromptManager call: operation and arguments
    outcome,            \* what that call returned or raised
    probed,             \* the paths that call tested with Path.exists(), in order
    opened,             \* the paths that call opened and parsed
    \* ---- history of the calls (not program state)
    served,             \* prompt_id -> the object the last successful
                        \* load_prompt(id, use_cache=True) since the last
                        \* clear_cache returned
    reloaded,           \* prompt_id -> a load_prompt(id, use_cache=False) has
                        \* succeeded since served[id] was returned
    clear_phase,        \* "cleared" from a clear_cache to the next load_prompt,
                        \* "first_load" after that load_prompt, else "none"
    \* ---- PromptManager: list_prompts, render_prompt, concurrent callers
    listed,             \* what the last list_prompts call returned or raised
    rendered,           \* what the last render_prompt call returned or raised
    threads,            \* the callers inside load_prompt: position and locals
    \* ---- schema entities (agent_simulation.py, agent_component.py,
    \*      agent_assembly.py)
    entity,             \* the schema entity the last constructor call built
    schema_call,        \* the last schema operation and its arguments
    schema_error,       \* the fields its ValidationError names; {} when none
    environ,            \* os.environ: the value of each variable, {} when unset
    server,             \* what GET {api_base}/v1/models meets, per api_base
    roots,              \* what the filesystem holds at each prompts root path
    startup_call,       \* the last client, config or engine construction call
    startup_result      \* what it returned or raised

contractVars == <<is_frozen, frozen_at, coordinate_frame, geometric_spec,
                  tolerance, ic_op, ic_raised>>
promptVars == <<disk, cache, next_obj, call, outcome, probed, opened,
                served, reloaded, clear_phase>>
schemaVars == <<entity, schema_call, schema_error>>
startupVars == <<environ, server, roots, startup_call, startup_result>>
moreVars == <<listed, rendered, threads, entity, schema_call, schema_error,
              environ, server, roots, startup_call, startup_result>>
vars == <<is_frozen, frozen_at, coordinate_frame, geometric_spec, tolerance,
          ic_op, ic_raised, disk, cache, next_obj, call, outcome, probed, opened,
          served, reloaded, clear_phase, listed, rendered, threads, entity,
          schema_call, schema_error, environ, server, roots, startup_call,
          startup_result>>

(***************************************************************************)
(* InterfaceContract                                                       *)
(***************************************************************************)

\* Timestamps are 1..MaxTime; None is NoTime.
MaxTime == 2
NoTime == 0
Timestamps == 1..MaxTime

\* Values a caller may give the three geometry fields.
Frames == {"None", "frame_top_face", "frame_side_face"}
GeometricSpecs == {"{}", "{hole_count: 4}", "{hole_count: 6}"}
Tolerances == {"None", "+-0.1mm", "H7/g6"}

\* InterfaceContract(**fields): every field is taken as the caller gives it;
\* the class declares no validator relating is_frozen and frozen_at (the
\* documented example, lines 148-165, is frozen and carries no frozen_at).
ConstructContract ==
    /\ is_frozen \in BOOLEAN
    /\ frozen_at \in {NoTime} \cup Timestamps
    /\ coordinate_frame \in Frames
    /\ geometric_spec \in GeometricSpecs
    /\ tolerance \in Tolerances
    /\ ic_op = [name |-> "construct", value |-> "None"]
    /\ ic_raised = "none"

\* InterfaceContract(interface_id=..., ...) with every optional field left
\* at its default (lines 115-139).
DefaultContract ==
    /\ is_frozen = FALSE
    /\ frozen_at = NoTime
    /\ coordinate_frame = "None"
    /\ geometric_spec = "{}"
    /\ tolerance = "None"
    /\ ic_op = [name |-> "construct", value |-> "None"]
    /\ ic_raised = "none"

\* BaseModel.__setattr__ under the default model_config: the value is stored,
\* nothing is validated and nothing is raised, whatever is_frozen is.
SetIsFrozen(b) ==
    /\ is_frozen' = b
    /\ ic_op' = [name |-> "set_is_frozen", value |-> b]
    /\ ic_raised' = "none"
    /\ UNCHANGED <<frozen_at, coordinate_frame, geometric_spec, tolerance>>
    /\ UNCHANGED <<promptVars, moreVars>>

SetFrozenAt(t) ==
    /\ frozen_at' = t
    /\ ic_op' = [name |-> "set_frozen_at", value |-> t]
    /\ ic_raised' = "none"
    /\ UNCHANGED <<is_frozen, coordinate_frame, geometric_spec, tolerance>>
    /\ UNCHANGED <<promptVars, moreVars>>

SetCoordinateFrame(f) ==
    /\ coordinate_frame' = f
    /\ ic_op' = [name |-> "set_coordinate_frame", value |-> f]
    /\ ic_raised' = "none"
    /\ UNCHANGED <<is_frozen, frozen_at, geometric_spec, tolerance>>
    /\ UNCHANGED <<promptVars, moreVars>>

SetGeometricSpec(g) ==
    /\ geometric_spec' = g
    /\ ic_op' = [name |-> "set_geometric_spec", value |-> g]
    /\ ic_raised' = "none"
    /\ UNCHANGED <<is_frozen, frozen_at, coordinate_frame, tolerance>>
    /\ UNCHANGED <<promptVars, moreVars>>

SetTolerance(s) ==
    /\ tolerance' = s
    /\ ic_op' = [name |-> "set_tolerance", value |-> s]
    /\ ic_raised' = "none"
    /\ UNCHANGED <<is_frozen, frozen_at, coordinate_frame, geometric_spec>>
    /\ UNCHANGED <<promptVars, moreVars>>

(***************************************************************************)
(* PromptManager: strings, paths and files                                 *)
(***************************************************************************)

Dot == "."

\* str.split('.'): the parts between the dots; "" splits to one empty part.
RECURSIVE Split(_)
Split(s) ==
    IF s = <<>> THEN << <<>> >>
    ELSE LET rest == Split(Tail(s)) IN
         IF Head(s) = Dot
         THEN << <<>> >> \o rest
         ELSE << <<Head(s)>> \o Head(rest) >> \o Tail(rest)

\* '.'.join(parts)
RECURSIVE Join(_)
Join(parts) ==
    IF parts = <<>> THEN <<>>
    ELSE IF Len(parts) = 1 THEN parts[1]
    ELSE parts[1] \o <<Dot>> \o Join(Tail(parts))

\* The prompt ids callers pass to load_prompt.
IdL   == <<"l">>
IdLC  == <<"l", ".", "c">>
IdLCV == <<"l", ".", "c", ".", "v">>
IdLCW == <<"l", ".", "c", ".", "w">>
PromptIds == {IdL, IdLC, IdLCV, IdLCW}

\* A plausible slip of the check below: a version segment is required.
TooFewPartsNeedsVersion(parts) == Len(parts) < 3

\* len(parts) < 2 (line 113)
TooFewParts(parts) == Len(parts) < 2

\* category = parts[0] (line 117)
Category(parts) == parts[1]

\* A plausible slip of the name below: the version segment is kept.
NameKeepingVersion(parts) == Join(SubSeq(parts, 2, Len(parts)))

\* name = '.'.join(parts[1:-1]) if len(parts) > 2 else parts[1] (line 118)
Name(parts) ==
    IF Len(parts) > 2 THEN Join(SubSeq(parts, 2, Len(parts) - 1)) ELSE parts[2]

\* pathlib's "/": a path is the sequence of its segments below prompts_dir,
\* and joining an empty segment changes nothing.
PathJoin(segments) == SelectSeq(segments, LAMBDA seg : seg # <<>>)

\* f"{name}.yaml"
YamlFile(name) == name \o <<".yaml">>

\* A plausible slip of the list below: base/ is tried before agents/.
SearchPathsBaseFirst(category, name) ==
    << PathJoin(<< <<"base">>, YamlFile(name) >>),
       PathJoin(<< <<"agents">>, category, YamlFile(name) >>),
       PathJoin(<< category, YamlFile(name) >>) >>

\* search_paths (lines 121-125), in the order the loop tries them.
SearchPaths(category, name) ==
    << PathJoin(<< <<"agents">>, category, YamlFile(name) >>),
       PathJoin(<< <<"base">>, YamlFile(name) >>),
       PathJoin(<< category, YamlFile(name) >>) >>

\* The paths of the model's prompts directory that may hold a file.
DiskPaths == { SearchPaths(<<"l">>, <<"c">>)[i] : i \in 1..3 }

\* A file's content, as far as load_prompt and list_prompts look at it:
\* what yaml.safe_load does ("error": it raises yaml.YAMLError; "scalar": it
\* gives a value that is no mapping; "mapping"), whether the mapping has the
\* keys 'metadata' and 'template', whether data['metadata'] is itself a
\* mapping, whether PromptMetadata(**metadata) validates (prompt_id a string,
\* version present), the type of the declared prompt_id ("str", "int", or
\* "none" when there is none), the declared prompt_id (an int by its digits)
\* and the template text.
Absent ==
    [yaml |-> "absent", has_metadata |-> FALSE, meta_mapping |-> FALSE,
     valid_metadata |-> FALSE, id_type |-> "none", prompt_id |-> <<>>,
     has_template |-> FALSE, template |-> ""]
GoodFile(pid, body) ==
    [yaml |-> "mapping", has_metadata |-> TRUE, meta_mapping |-> TRUE,
     valid_metadata |-> TRUE, id_type |-> "str", prompt_id |-> pid,
     has_template |-> TRUE, template |-> body]
NoTemplateFile(pid) ==
    [yaml |-> "mapping", has_metadata |-> TRUE, meta_mapping |-> TRUE,
     valid_metadata |-> TRUE, id_type |-> "str", prompt_id |-> pid,
     has_template |-> FALSE, template |-> ""]
NoVersionFile(pid, body) ==
    [yaml |-> "mapping", has_metadata |-> TRUE, meta_mapping |-> TRUE,
     valid_metadata |-> FALSE, id_type |-> "str", prompt_id |-> pid,
     has_template |-> TRUE, template |-> body]
\* Text that is not YAML: yaml.safe_load raises.
BadYamlFile ==
    [yaml |-> "error", has_metadata |-> FALSE, meta_mapping |-> FALSE,
     valid_metadata |-> FALSE, id_type |-> "none", prompt_id |-> <<>>,
     has_template |-> FALSE, template |-> ""]
\* YAML that is a string, a list or empty (None), not a mapping.
ScalarFile ==
    [yaml |-> "scalar", has_metadata |-> FALSE, meta_mapping |-> FALSE,
     valid_metadata |-> FALSE, id_type |-> "none", prompt_id |-> <<>>,
     has_template |-> FALSE, template |-> ""]
\* A mapping with a template and no metadata block.
NoMetadataFile(body) ==
    [yaml |-> "mapping", has_metadata |-> FALSE, meta_mapping |-> FALSE,
     valid_metadata |-> FALSE, id_type |-> "none", prompt_id |-> <<>>,
     has_template |-> TRUE, template |-> body]
\* metadata: "text" (the block is a string, not a mapping).
MetadataNotMappingFile(body) ==
    [yaml |-> "mapping", has_metadata |-> TRUE, meta_mapping |-> FALSE,
     valid_metadata |-> FALSE, id_type |-> "none", prompt_id |-> <<>>,
     has_template |-> TRUE, template |-> body]
\* metadata: {prompt_id: 7, version: ...}: the declared id is an int.
IntIdFile(digits, body) ==
    [yaml |-> "mapping", has_metadata |-> TRUE, meta_mapping |-> TRUE,
     valid_metadata |-> FALSE, id_type |-> "int", prompt_id |-> digits,
     has_template |-> TRUE, template |-> body]
FileContents ==
    { GoodFile(IdLCV, "t1"), GoodFile(IdLCV, "t2"), GoodFile(IdLCW, "t1"),
      NoTemplateFile(IdLCW), NoVersionFile(IdLCW, "t1") }

\* path.exists() (line 129)
Exists(d, path) == path \in DOMAIN d /\ d[path].yaml # "absent"

\* for path in search_paths: if path.exists(): ... break (lines 127-131):
\* the index of the first existing path from i on, 0 when there is none.
RECURSIVE FirstExisting(_, _, _)
FirstExisting(d, paths, i) ==
    IF i > Len(paths) THEN 0
    ELSE IF Exists(d, paths[i]) THEN i
    ELSE FirstExisting(d, paths, i + 1)

\* A plausible slip of the comparison below: the version segment is ignored.
IdMatchesIgnoringVersion(declared, requested) ==
    LET d == Split(declared)
        r == Split(requested)
    IN  SubSeq(d, 1, Len(d) - 1) = SubSeq(r, 1, Len(r) - 1)

\* A plausible slip of the comparison below: it is left out.
IdMatchesAnything(declared, requested) == TRUE

\* metadata.prompt_id != prompt_id (line 155), negated
IdMatches(declared, requested) == declared = requested

\* Lines 138-159 on the file found: the condition raised, or "ok".
\*   yaml.YAMLError out of yaml.safe_load (line 140)      YAMLError
\*   ValueError "Invalid YAML structure" / "Missing ..."  MalformedPromptFile
\*   TypeError from ** of a metadata that is no mapping   TypeError
\*   pydantic ValidationError from PromptMetadata(...)    MetadataInvalid
\*   ValueError "Prompt ID mismatch"                      PromptIdMismatch
ValidateFile(f, prompt_id) ==
    IF f.yaml = "error" THEN "YAMLError"
    ELSE IF f.yaml # "mapping" THEN "MalformedPromptFile"
    ELSE IF ~f.has_metadata THEN "MalformedPromptFile"
    ELSE IF ~f.has_template THEN "MalformedPromptFile"
    ELSE IF ~f.meta_mapping THEN "TypeError"
    ELSE IF ~f.valid_metadata THEN "MetadataInvalid"
    ELSE IF ~IdMatches(f.prompt_id, prompt_id) THEN "PromptIdMismatch"
    ELSE "ok"

\* What an exception's message names: prompt ids and paths.
NoMessage == [ids |-> <<>>, paths |-> <<>>]

\* A plausible slip of the message below: only the last path tried is named.
NotFoundMessageLastPath(prompt_id, paths) ==
    [ids |-> <<prompt_id>>, paths |-> <<paths[Len(paths)]>>]

\* f"Prompt file not found for '{prompt_id}'. Searched: {search_paths}"
\* (lines 134-136)
NotFoundMessage(prompt_id, paths) == [ids |-> <<prompt_id>>, paths |-> paths]

\* The messages of lines 114, 143-149 and 156-159; yaml's, pydantic's and
\* the interpreter's own messages are not modelled.
FailureMessage(v, prompt_id, path, f) ==
    IF v = "MalformedPromptFile" THEN [ids |-> <<>>, paths |-> <<path>>]
    ELSE IF v = "PromptIdMismatch"
    THEN [ids |-> <<prompt_id, f.prompt_id>>, paths |-> <<>>]
    ELSE NoMessage

\* Lines 110-161 for a call that does not return from the cache: the
\* condition (ValueError "Invalid prompt_id format" is InvalidPromptId,
\* FileNotFoundError is PromptNotFound), the paths tested and opened, the
\* metadata.prompt_id and template of the PromptTemplate built, and what the
\* exception's message names.
ReadPrompt(d, prompt_id) ==
    LET parts == Split(prompt_id) IN
    IF TooFewParts(parts)
    THEN [kind |-> "InvalidPromptId", probed |-> <<>>, opened |-> {},
          prompt_id |-> <<>>, template |-> "",
          message |-> [ids |-> <<prompt_id>>, paths |-> <<>>]]
    ELSE LET paths == SearchPaths(Category(parts), Name(parts))
             k == FirstExisting(d, paths, 1)
         IN  IF k = 0
             THEN [kind |-> "PromptNotFound", probed |-> paths, opened |-> {},
                   prompt_id |-> <<>>, template |-> "",
                   message |-> NotFoundMessage(prompt_id, paths)]
             ELSE LET f == d[paths[k]]
                      v == ValidateFile(f, prompt_id)
                  IN  [kind |-> v, probed |-> SubSeq(paths, 1, k),
                       opened |-> {paths[k]},
                       prompt_id |-> IF v = "ok" THEN f.prompt_id ELSE <<>>,
                       template |-> IF v = "ok" THEN f.template ELSE "",
                       message |-> FailureMessage(v, prompt_id, paths[k], f)]

(***************************************************************************)
(* PromptManager: the engine                                               *)
(***************************************************************************)

\* PromptTemplate objects are told apart by id: two objects built from the
\* same file content are equal and not identical.
MaxObjects == 2
NoObj == [id |-> 0, prompt_id |-> <<>>, template |-> ""]
NoOutcome == [kind |-> "none", obj |-> NoObj, message |-> NoMessage]

\* self._cache = {} (line 89)
EmptyCache == [p \in PromptIds |-> NoObj]

\* Plausible slips of the test below: use_cache is not consulted; the cache
\* is never consulted.
CacheHitIgnoringFlag(c, prompt_id, use_cache) == c[prompt_id] # NoObj
CacheHitNever(c, prompt_id, use_cache) == FALSE

\* use_cache and prompt_id in self._cache (line 107)
CacheHit(c, prompt_id, use_cache) == use_cache /\ c[prompt_id] # NoObj

\* A plausible slip of the store below: nothing is stored.
StoredNothing(c, prompt_id, obj) == c

\* self._cache[prompt_id] = prompt_template (line 164)
Stored(c, prompt_id, obj) == [c EXCEPT ![prompt_id] = obj]

\* A plausible slip of the cache update below: a call that raises drops the
\* entry of its id.
AfterLoadEvicting(c, prompt_id, built, obj) ==
    IF built THEN Stored(c, prompt_id, obj)
    ELSE [c EXCEPT ![prompt_id] = NoObj]

\* The cache after the body of load_prompt: line 164 is reached by a call
\* that built a PromptTemplate, and by no call that returned at line 108
\* or raised before it.
AfterLoad(c, prompt_id, built, obj) ==
    IF built THEN Stored(c, prompt_id, obj) ELSE c

\* A plausible slip of the clear below: the entries are kept.
ClearedNothing(c) == c

\* self._cache.clear() (line 248)
Cleared(c) == EmptyCache

\* The body of load_prompt(prompt_id, use_cache) (lines 106-166), run in one
\* step. A call that would build a PromptTemplate beyond MaxObjects is not
\* taken (the bound of the model).
LoadPromptBody(prompt_id, use_cache) ==
    LET hit == CacheHit(cache, prompt_id, use_cache)
        r == ReadPrompt(disk, prompt_id)
        built == [id |-> next_obj, prompt_id |-> r.prompt_id,
                  template |-> r.template]
        ok == hit \/ r.kind = "ok"
        ret == IF hit THEN cache[prompt_id] ELSE built
    IN  /\ ~hit /\ r.kind = "ok" => next_obj <= MaxObjects
        /\ outcome' = IF ok
                      THEN [kind |-> "ok", obj |-> ret, message |-> NoMessage]
                      ELSE [kind |-> r.kind, obj |-> NoObj,
                            message |-> r.message]
        /\ probed' = IF hit THEN <<>> ELSE r.probed
        /\ opened' = IF hit THEN {} ELSE r.opened
        /\ cache' = AfterLoad(cache, prompt_id, ~hit /\ r.kind = "ok", built)
        /\ next_obj' = IF ~hit /\ r.kind = "ok" THEN next_obj + 1 ELSE next_obj
        /\ served' = IF ok /\ use_cache
                     THEN [served EXCEPT ![prompt_id] = ret] ELSE served
        /\ reloaded' = IF ok
                       THEN [reloaded EXCEPT ![prompt_id] = ~use_cache]
                       ELSE reloaded
        /\ clear_phase' = IF clear_phase = "cleared" THEN "first_load" ELSE "none"
        /\ UNCHANGED disk

\* load_prompt(prompt_id, use_cache) (lines 91-166), called by itself.
LoadPrompt(prompt_id, use_cache) ==
    /\ LoadPromptBody(prompt_id, use_cache)
    /\ call' = [op |-> "load_prompt", prompt_id |-> prompt_id,
                use_cache |-> use_cache]
    /\ UNCHANGED <<contractVars, moreVars>>

\* clear_cache() (lines 246-248)
ClearCache ==
    /\ cache' = Cleared(cache)
    /\ call' = [op |-> "clear_cache", prompt_id |-> <<>>, use_cache |-> FALSE]
    /\ outcome' = NoOutcome
    /\ probed' = <<>>
    /\ opened' = {}
    /\ served' = [p \in PromptIds |-> NoObj]
    /\ reloaded' = [p \in PromptIds |-> FALSE]
    /\ clear_phase' = "cleared"
    /\ UNCHANGED <<disk, next_obj>>
    /\ UNCHANGED <<contractVars, moreVars>>

\* The environment writes or replaces a template file under prompts_dir.
WriteFile(path, content) ==
    /\ disk' = [disk EXCEPT ![path] = content]
    /\ call' = [op |-> "write_file", prompt_id |-> <<>>, use_cache |-> FALSE]
    /\ outcome' = NoOutcome
    /\ probed' = <<>>
    /\ opened' = {}
    /\ UNCHANGED <<cache, next_obj, served, reloaded, clear_phase>>
    /\ UNCHANGED <<contractVars, moreVars>>

\* The environment deletes a template file.
DeleteFile(path) ==
    /\ disk[path] # Absent
    /\ disk' = [disk EXCEPT ![path] = Absent]
    /\ call' = [op |-> "delete_file", prompt_id |-> <<>>, use_cache |-> FALSE]
    /\ outcome' = NoOutcome
    /\ probed' = <<>>
    /\ opened' = {}
    /\ UNCHANGED <<cache, next_obj, served, reloaded, clear_phase>>
    /\ UNCHANGED <<contractVars, moreVars>>

\* PromptManager(prompts_dir) over an existing, empty prompts directory
\* (lines 74-89).
InitPrompt ==
    /\ disk = [path \in DiskPaths |-> Absent]
    /\ cache = EmptyCache
    /\ next_obj = 1
    /\ call = [op |-> "init", prompt_id |-> <<>>, use_cache |-> FALSE]
    /\ outcome = NoOutcome
    /\ probed = <<>>
    /\ opened = {}
    /\ served = [p \in PromptIds |-> NoObj]
    /\ reloaded = [p \in PromptIds |-> FALSE]
    /\ clear_phase = "none"

\* The environment variables the tools read.
EnvNames ==
    {"OPENAI_API_BASE", "LLM_API_BASE", "LLM_MODEL_NAME", "PROMPTS_DIR"}

\* The api_base a caller passes, the one the environment names, and the
\* two written in the code (llm_client.py lines 125 and 260, llm_config.py
\* line 21).
ArgBase == "http://arg:8001"
EnvBase == "http://env:8001"
ClientDefaultBase == "http://hopper-34:8001"
ConfigDefaultBase == "http://localhost:8000/v1"
Bases == {ArgBase, EnvBase, ClientDefaultBase, ConfigDefaultBase}

\* The prompts root a caller passes and the one PROMPTS_DIR names.
ArgRoot == <<"arg">>
EnvRoot == <<"env">>
Roots == {ArgRoot, EnvRoot}

\* Nothing set, no server answering, no directory, no call yet.
NoStartup == [kind |-> "none"]
InitStartup ==
    /\ environ = [n \in EnvNames |-> {}]
    /\ server = [b \in Bases |-> "unreachable"]
    /\ roots = [r \in Roots |-> "missing"]
    /\ startup_call = [op |-> "none"]
    /\ startup_result = NoStartup

\* No list_prompts or render_prompt call yet, no caller inside load_prompt,
\* no schema entity constructed.
NoListing == [kind |-> "none", ids |-> <<>>]
NoRender == [kind |-> "none", text |-> <<>>]
NoEntity == [class |-> "none"]
InitMore ==
    /\ listed = NoListing
    /\ rendered = NoRender
    /\ threads = <<>>
    /\ entity = NoEntity
    /\ schema_call = [op |-> "none"]
    /\ schema_error = {}
    /\ InitStartup

(***************************************************************************)
(* Specifications                                                          *)
(***************************************************************************)

\* The prompt engine and the files it reads.
Init == DefaultContract /\ InitPrompt /\ InitMore

Next ==
    \/ \E p \in PromptIds, u \in BOOLEAN : LoadPrompt(p, u)
    \/ ClearCache
    \/ \E path \in DiskPaths, content \in FileContents : WriteFile(path, content)
    \/ \E path \in DiskPaths : DeleteFile(path)

Spec == Init /\ [][Next]_vars

\* One InterfaceContract and the assignments its callers make.
InitContract == ConstructContract /\ InitPrompt /\ InitMore

NextContract ==
    \/ \E b \in BOOLEAN : SetIsFrozen(b)
    \/ \E t \in {NoTime} \cup Timestamps : SetFrozenAt(t)
    \/ \E f \in Frames : SetCoordinateFrame(f)
    \/ \E g \in GeometricSpecs : SetGeometricSpec(g)
    \/ \E s \in Tolerances : SetTolerance(s)

SpecContract == InitContract /\ [][NextContract]_vars

(***************************************************************************)
(* InterfaceContract lifecycle (checked under SpecContract)                *)
(***************************************************************************)

GeometryFields == <<coordinate_frame, geometric_spec, tolerance>>

\* C1: freezing is one-way: once is_frozen is true it is true in every later
\* state. The class accepts is_frozen = False on a frozen contract.
C1_FreezeIsOneWay == [][is_frozen => is_frozen']_vars

\* C2: on a frozen contract an attempt to change coordinate_frame,
\* geometric_spec or tolerance is rejected with FrozenContractViolation and
\* leaves the three fields as they were. The class stores the new value and
\* raises nothing.
C2_FrozenGeometryRejected ==
    [][ /\ is_frozen
        /\ \/ ic_op'.name = "set_coordinate_frame" /\ ic_op'.value # coordinate_frame
           \/ ic_op'.name = "set_geometric_spec" /\ ic_op'.value # geometric_spec
           \/ ic_op'.name = "set_tolerance" /\ ic_op'.value # tolerance
        => /\ ic_raised' = "FrozenContractViolation"
           /\ GeometryFields' = GeometryFields ]_vars

\* C3: freezing a contract that is already frozen fails with AlreadyFrozen
\* and leaves frozen_at unchanged. The class accepts the second freeze (the
\* assignment of is_frozen = True, and of a new frozen_at) silently.
C3_SecondFreezeRejected ==
    [][ is_frozen =>
          /\ ic_op'.name = "set_is_frozen" /\ ic_op'.value = TRUE
               => ic_raised' = "AlreadyFrozen"
          /\ frozen_at' = frozen_at ]_vars

\* C4: in every reachable state, a freshly constructed contract included,
\* is_frozen is true exactly when frozen_at is set.
C4_FrozenIffStamped == is_frozen <=> frozen_at # NoTime

(***************************************************************************)
(* Prompt resolution (checked under Spec)                                  *)
(***************************************************************************)

IsLoad == call.op = "load_prompt"

\* The number of dot-separated parts of an id: its dots, plus one.
NumParts(id) == Cardinality({i \in 1..Len(id) : id[i] = Dot}) + 1

\* The three candidate locations of an id with two or more parts, as the
\* specification lists them.
Locations(id) ==
    LET parts == Split(id)
        category == parts[1]
        file == Name(parts) \o <<".yaml">>
    IN  << << <<"agents">>, category, file >>,
           << <<"base">>, file >>,
           << category, file >> >>

\* C5 as stated: a load_prompt(p, use_cache=True) that follows a successful
\* one with no clear_cache between them returns the identical object and
\* reads no file, whatever happened to the files.
C5_AsStated ==
    [][ \A p \in PromptIds :
          /\ call' = [op |-> "load_prompt", prompt_id |-> p, use_cache |-> TRUE]
          /\ served[p] # NoObj
          => /\ outcome'.kind = "ok"
             /\ outcome'.obj = served[p]
             /\ opened' = {} /\ probed' = <<>> ]_vars

\* C5 as amended: a load_prompt(p, use_cache=True) that follows a successful
\* one with no clear_cache and no successful load_prompt(p, use_cache=False)
\* between them returns the identical object and reads no file, even if the
\* template file was changed or deleted in between.
C5_CachedResolveIdentical ==
    [][ \A p \in PromptIds :
          /\ call' = [op |-> "load_prompt", prompt_id |-> p, use_cache |-> TRUE]
          /\ served[p] # NoObj
          /\ ~reloaded[p]
          => /\ outcome'.kind = "ok"
             /\ outcome'.obj = served[p]
             /\ opened' = {} /\ probed' = <<>> ]_vars

\* C5 witness: the second cached call returned the object served before
\* although no candidate file is left on disk.
C5_Witness ==
    /\ call = [op |-> "load_prompt", prompt_id |-> IdLCV, use_cache |-> TRUE]
    /\ outcome.kind = "ok"
    /\ outcome.obj = served[IdLCV]
    /\ opened = {}
    /\ \A path \in DiskPaths : disk[path] = Absent

\* C6: after clear_cache the cache is empty, and the next load_prompt, with
\* either use_cache, goes to the files: it returns or raises what the disk
\* holds at that moment, and a template it returns was read then.
C6_ClearThenResolveRereads ==
    /\ clear_phase = "cleared" => \A p \in PromptIds : cache[p] = NoObj
    /\ clear_phase = "first_load" /\ IsLoad =>
         LET r == ReadPrompt(disk, call.prompt_id) IN
         /\ outcome.kind = r.kind
         /\ opened = r.opened
         /\ probed = r.probed
         /\ r.kind = "ok" =>
              /\ opened # {}
              /\ \A path \in opened : outcome.obj.template = disk[path].template

\* C6 witness: the first load after a clear built a second object from the
\* file, with use_cache=True.
C6_Witness ==
    /\ clear_phase = "first_load"
    /\ IsLoad /\ call.use_cache
    /\ outcome.kind = "ok"
    /\ outcome.obj.id = 2
    /\ opened # {}

\* C7: load_prompt with use_cache=False always goes to the files, cached or
\* not: it returns a template built by this call from the content on disk,
\* or raises the failure the disk gives.
C7_BypassGoesToDisk ==
    IsLoad /\ ~call.use_cache =>
        LET r == ReadPrompt(disk, call.prompt_id) IN
        /\ outcome.kind = r.kind
        /\ opened = r.opened
        /\ probed = r.probed
        /\ r.kind = "ok" =>
             /\ outcome.obj.id = next_obj - 1
             /\ \A path \in opened : outcome.obj.template = disk[path].template
        /\ NumParts(call.prompt_id) >= 2 => probed # <<>>

\* C7 witness: a use_cache=False call raised PromptNotFound while the id was
\* in the cache.
C7_Witness ==
    /\ IsLoad /\ ~call.use_cache
    /\ outcome.kind = "PromptNotFound"
    /\ cache[call.prompt_id] # NoObj

\* C8: load_prompt tries agents/<category>/<name>.yaml, base/<name>.yaml,
\* <category>/<name>.yaml in this order and uses the first that exists: a
\* location after an existing one is neither tested nor read, also when the
\* earlier file fails validation.
C8_FirstExistingWins ==
    IsLoad /\ NumParts(call.prompt_id) >= 2 =>
        LET loc == Locations(call.prompt_id) IN
        /\ Len(probed) <= 3
        /\ probed = SubSeq(loc, 1, Len(probed))
        /\ \A i \in 1..3, j \in 1..3 :
             i < j /\ Exists(disk, loc[i]) =>
                 /\ loc[j] \notin opened
                 /\ Len(probed) < j
        /\ \A path \in opened :
             \E i \in 1..3 : /\ path = loc[i]
                             /\ Exists(disk, loc[i])
                             /\ opened = {loc[i]}
                             /\ \A k \in 1..(i - 1) : ~Exists(disk, loc[k])
        /\ opened = {} /\ outcome.kind # "ok" => outcome.kind = "PromptNotFound"

\* C8 witness: the agents/ file lacks its template block, the base/ file is
\* a good file for the requested id, and the call failed on the agents/ file.
C8_Witness ==
    /\ IsLoad /\ call.prompt_id = IdLCV
    /\ disk[Locations(IdLCV)[1]] = NoTemplateFile(IdLCW)
    /\ disk[Locations(IdLCV)[2]] = GoodFile(IdLCV, "t1")
    /\ opened = {Locations(IdLCV)[1]}
    /\ outcome.kind = "MalformedPromptFile"

\* C9 as stated: when the file selected declares a metadata.prompt_id other
\* than the requested id, load_prompt fails with PromptIdMismatch and
\* returns no template.
C9_AsStated ==
    IsLoad =>
        \A path \in opened :
            disk[path].has_metadata /\ disk[path].prompt_id # call.prompt_id
            => outcome.kind = "PromptIdMismatch" /\ outcome.obj = NoObj

\* C9 as amended: when the file selected has both blocks, its metadata
\* validates, and it declares a prompt_id other than the requested id,
\* load_prompt fails with PromptIdMismatch and returns no template; and no
\* call returns a template from a file that declares another id.
C9_MismatchRejected ==
    IsLoad =>
        \A path \in opened :
            LET f == disk[path] IN
            /\ f.prompt_id # call.prompt_id => outcome.kind # "ok"
            /\ /\ f.yaml = "mapping"
               /\ f.has_metadata /\ f.has_template /\ f.valid_metadata
               /\ f.prompt_id # call.prompt_id
               => outcome.kind = "PromptIdMismatch" /\ outcome.obj = NoObj

\* C9 witness: lme-style ids that differ in the version segment only.
C9_Witness ==
    /\ IsLoad /\ call.prompt_id = IdLCV
    /\ \E path \in opened : disk[path] = GoodFile(IdLCW, "t1")
    /\ outcome.kind = "PromptIdMismatch"

\* C10: an id with fewer than two dot-separated parts fails with
\* InvalidPromptId before any file is tested or read; an id with two or
\* more parts never fails with InvalidPromptId.
C10_InvalidIdCheckedFirst ==
    IsLoad =>
        /\ NumParts(call.prompt_id) < 2 =>
             /\ outcome.kind = "InvalidPromptId"
             /\ probed = <<>> /\ opened = {}
        /\ NumParts(call.prompt_id) >= 2 => outcome.kind # "InvalidPromptId"

\* C10 witness: a one-part id was refused while files were on disk.
C10_Witness ==
    /\ IsLoad /\ call.prompt_id = IdL
    /\ outcome.kind = "InvalidPromptId"
    /\ \E path \in DiskPaths : disk[path] # Absent

\* The call is answered from the cache: lines 107-108 return before any path
\* is built.
AnsweredFromCache == outcome.kind = "ok" /\ probed = <<>>

\* C11 as stated: when none of the three candidate locations exists,
\* load_prompt fails with PromptNotFound and the message names exactly the
\* three searched paths, in search order, and the requested prompt_id. A
\* cached id is still served after its file was deleted, so this fails.
C11_AsStated ==
    IsLoad /\ NumParts(call.prompt_id) >= 2
           /\ (\A i \in 1..3 : ~Exists(disk, Locations(call.prompt_id)[i])) =>
        /\ outcome.kind = "PromptNotFound"
        /\ outcome.message.paths = Locations(call.prompt_id)
        /\ outcome.message.ids = <<call.prompt_id>>

\* C11, amended: when none of the three candidate locations exists and the
\* call is not answered from the cache, load_prompt fails with PromptNotFound
\* and the message names exactly the three searched paths, in search order,
\* and the requested prompt_id.
C11_NotFoundNamesSearchedPaths ==
    IsLoad /\ NumParts(call.prompt_id) >= 2
           /\ (\A i \in 1..3 : ~Exists(disk, Locations(call.prompt_id)[i]))
           /\ ~AnsweredFromCache =>
        /\ outcome.kind = "PromptNotFound"
        /\ outcome.message.paths = Locations(call.prompt_id)
        /\ outcome.message.ids = <<call.prompt_id>>
        /\ probed = Locations(call.prompt_id)
        /\ opened = {}

\* C11 witness: a load of "l.c.v" that bypasses the cache on a disk with no
\* file fails with PromptNotFound naming three paths, while the cache still
\* holds the id from before its file was deleted.
C11_Witness ==
    /\ IsLoad /\ call.prompt_id = IdLCV /\ ~call.use_cache
    /\ \A path \in DiskPaths : disk[path] = Absent
    /\ outcome.kind = "PromptNotFound"
    /\ Len(outcome.message.paths) = 3
    /\ cache[IdLCV] # NoObj

\* ---------------------------------------------------------------------------
\* load_prompt over files of every shape yaml.safe_load can meet.

\* What a file under prompts_dir can hold, by the branch of lines 139-161 it
\* takes.
FileShapes ==
    { BadYamlFile, ScalarFile, NoMetadataFile("t1"),
      MetadataNotMappingFile("t1"), NoTemplateFile(IdLCV),
      GoodFile(IdLCV, "t1") }

NextFiles ==
    \/ \E u \in BOOLEAN : LoadPrompt(IdLCV, u)
    \/ ClearCache
    \/ \E path \in DiskPaths, content \in FileShapes : WriteFile(path, content)
    \/ \E path \in DiskPaths : DeleteFile(path)

SpecFiles == Init /\ [][NextFiles]_vars

\* The file load_prompt selected and opened (lines 130, 139).
SelectedFile == disk[CHOOSE path \in opened : TRUE]

\* C12: when the selected file does not parse as a mapping, or lacks a
\* metadata block, or lacks a template block, load_prompt fails with
\* MalformedPromptFile, and it succeeds only when both blocks are present. A
\* file that is not YAML at all makes yaml.safe_load raise yaml.YAMLError,
\* which load_prompt lets through, so this fails.
C12_MalformedFileRejected ==
    IsLoad /\ opened # {} =>
        /\ (\/ SelectedFile.yaml # "mapping"
            \/ ~SelectedFile.has_metadata
            \/ ~SelectedFile.has_template) => outcome.kind = "MalformedPromptFile"
        /\ outcome.kind = "ok" =>
               SelectedFile.has_metadata /\ SelectedFile.has_template

\* ---------------------------------------------------------------------------
\* list_prompts (lines 206-244).

IdXCV == <<"x", ".", "c", ".", "v">>
IntSeven == <<"7">>

\* The Unicode code point of the characters the ids are written in: Python
\* orders str by code point.
CodePoint(ch) ==
    CASE ch = "." -> 46
      [] ch = "7" -> 55
      [] ch = "c" -> 99
      [] ch = "l" -> 108
      [] ch = "v" -> 118
      [] ch = "w" -> 119
      [] ch = "x" -> 120

\* str.__lt__: a is before b
RECURSIVE StrLess(_, _)
StrLess(a, b) ==
    IF b = <<>> THEN FALSE
    ELSE IF a = <<>> THEN TRUE
    ELSE IF CodePoint(Head(a)) # CodePoint(Head(b))
         THEN CodePoint(Head(a)) < CodePoint(Head(b))
    ELSE StrLess(Tail(a), Tail(b))

\* The value of an int written by its decimal digits.
RECURSIVE IntValue(_)
IntValue(digits) ==
    IF digits = <<>> THEN 0
    ELSE 10 * IntValue(SubSeq(digits, 1, Len(digits) - 1))
         + (CodePoint(digits[Len(digits)]) - 48)

\* x < y between two collected ids of one type
IdLess(x, y) ==
    IF x.id_type = "int" THEN IntValue(x.prompt_id) < IntValue(y.prompt_id)
    ELSE StrLess(x.prompt_id, y.prompt_id)

\* sorted(...) of ids of one type: stable, ascending.
RECURSIVE InsertSorted(_, _)
InsertSorted(x, s) ==
    IF s = <<>> THEN <<x>>
    ELSE IF IdLess(x, Head(s)) THEN <<x>> \o s
    ELSE <<Head(s)>> \o InsertSorted(x, Tail(s))

RECURSIVE Sorted(_)
Sorted(s) ==
    IF s = <<>> THEN <<>>
    ELSE InsertSorted(s[Len(s)], Sorted(SubSeq(s, 1, Len(s) - 1)))

\* pid.startswith(f"{category}.") (line 232)
StartsWith(pid, prefix) ==
    Len(pid) >= Len(prefix) /\ SubSeq(pid, 1, Len(prefix)) = prefix

\* if pid: (line 231): a non-empty str, a non-zero int
Truthy(f) ==
    \/ f.id_type = "str" /\ f.prompt_id # <<>>
    \/ f.id_type = "int" /\ IntValue(f.prompt_id) # 0

\* Lines 225-233 on one file: whether its prompt_id is appended. An
\* exception (yaml.YAMLError, 'in' on None, .get on a non-mapping,
\* .startswith on an int) is caught at line 234 and the file is skipped.
Appends(f, has_category, category) ==
    /\ f.yaml = "mapping"
    /\ f.has_metadata
    /\ f.meta_mapping
    /\ Truthy(f)
    /\ \/ ~has_category
       \/ f.id_type = "str" /\ StartsWith(f.prompt_id, category \o <<Dot>>)

\* for search_dir in [prompts_dir / 'agents', prompts_dir / 'base'] (line 216)
ScanDirs == << <<"agents">>, <<"base">> >>

\* search_dir.rglob('*.yaml') over the two directories in turn (lines 220-224)
ScanPaths ==
    LET all == SearchPaths(<<"l">>, <<"c">>)
        Under(dir) == SelectSeq(all, LAMBDA path : path[1] = dir)
    IN  Under(ScanDirs[1]) \o Under(ScanDirs[2])

\* prompt_ids when the loops end (line 216-236)
Collected(d, has_category, category) ==
    LET kept == SelectSeq(ScanPaths, LAMBDA path :
                    Exists(d, path) /\ Appends(d[path], has_category, category))
    IN  [i \in 1..Len(kept) |->
            [id_type |-> d[kept[i]].id_type, prompt_id |-> d[kept[i]].prompt_id]]

\* return sorted(prompt_ids) (line 244), outside the try: comparing a str
\* with an int raises TypeError.
ListPromptsResult(d, has_category, category) ==
    LET ids == Collected(d, has_category, category) IN
    IF \E i, j \in 1..Len(ids) : ids[i].id_type # ids[j].id_type
    THEN [kind |-> "TypeError", ids |-> <<>>]
    ELSE [kind |-> "ok", ids |-> Sorted(ids)]

\* list_prompts(category) (lines 206-244); has_category is FALSE for
\* category=None.
ListPrompts(has_category, category) ==
    /\ listed' = ListPromptsResult(disk, has_category, category)
    /\ call' = [op |-> "list_prompts", has_category |-> has_category,
                category |-> category]
    /\ outcome' = NoOutcome
    /\ probed' = <<>>
    /\ opened' = {}
    /\ UNCHANGED <<disk, cache, next_obj, served, reloaded, clear_phase>>
    /\ UNCHANGED <<contractVars, rendered, threads, schemaVars, startupVars>>

\* What the scanned files can hold.
ListedShapes ==
    { BadYamlFile, ScalarFile, NoMetadataFile("t1"),
      MetadataNotMappingFile("t1"), IntIdFile(IntSeven, "t1"),
      NoTemplateFile(IdLCV), GoodFile(IdLCV, "t1"), GoodFile(IdLCW, "t1"),
      GoodFile(IdXCV, "t1") }

Categories == { <<"l">>, <<"x">> }

NextList ==
    \/ \E c \in Categories : ListPrompts(TRUE, c)
    \/ ListPrompts(FALSE, <<>>)
    \/ \E path \in DiskPaths, content \in ListedShapes : WriteFile(path, content)
    \/ \E path \in DiskPaths : DeleteFile(path)

SpecList == Init /\ [][NextList]_vars

IsList == call.op = "list_prompts"

\* The ids that string-typed declarations under agents/ and base/ give.
DeclaredUnder(dir) ==
    { disk[path].prompt_id : path \in
        { q \in DiskPaths : q[1] = dir /\ disk[q].yaml = "mapping"
                            /\ disk[q].has_metadata /\ disk[q].meta_mapping
                            /\ disk[q].id_type = "str" } }

\* C13: list_prompts(category=c) returns only ids that start with c and a
\* dot, in ascending order, and list_prompts() returns every id declared
\* under agents/ and base/, in ascending order. With a str id and an int id
\* among the scanned files list_prompts() raises TypeError and returns
\* nothing, so this fails.
C13_ListFiltersAndSorts ==
    IsList =>
        /\ listed.kind = "ok"
        /\ \A i, j \in 1..Len(listed.ids) :
               i < j => ~IdLess(listed.ids[j], listed.ids[i])
        /\ call.has_category =>
               \A i \in 1..Len(listed.ids) :
                   StartsWith(listed.ids[i].prompt_id, call.category \o <<Dot>>)
        /\ ~call.has_category =>
               \A dir \in {"agents", "base"} : \A pid \in DeclaredUnder(<<dir>>) :
                   \E i \in 1..Len(listed.ids) : listed.ids[i].prompt_id = pid

\* C14: the sequence list_prompts returns has no duplicates. Two files that
\* declare the same prompt_id are both appended and nothing removes one, so
\* this fails.
C14_ListHasNoDuplicates ==
    IsList /\ listed.kind = "ok" =>
        \A i, j \in 1..Len(listed.ids) :
            i # j => listed.ids[i] # listed.ids[j]

\* C15: list_prompts never raises because of a scanned file's content, and a
\* file that is not YAML, is no mapping, has a metadata that is no mapping
\* or declares a non-string prompt_id contributes nothing, while the ids of
\* the other files are returned. With category=None an int prompt_id is
\* appended, and sorted() raises TypeError when a str id is there too, so
\* this fails.
C15_ListSkipsBadFiles ==
    IsList =>
        /\ listed.kind = "ok"
        /\ \A i \in 1..Len(listed.ids) : listed.ids[i].id_type = "str"
        /\ \A dir \in {"agents", "base"} : \A pid \in DeclaredUnder(<<dir>>) :
               (call.has_category => StartsWith(pid, call.category \o <<Dot>>))
               => \E i \in 1..Len(listed.ids) : listed.ids[i].prompt_id = pid

\* The ids a caller can ask load_prompt for on the files of the listing.
ListedIds == {IdLC, IdLCV, IdLCW, IdXCV}

\* C29: every id list_prompts returns loads, on the same files, to a
\* template declaring it, and every id load_prompt accepts on those files is
\* in what list_prompts() returns. Fails both ways: a file with a metadata
\* block and no template block, or one whose declared id names another
\* location, is listed and does not load; a file at <category>/<name>.yaml
\* loads and is not listed, that directory not being scanned.
C29_ListedIffLoadable ==
    IsList /\ listed.kind = "ok" =>
        /\ \A i \in 1..Len(listed.ids) :
               /\ listed.ids[i].id_type = "str"
               /\ ReadPrompt(disk, listed.ids[i].prompt_id).kind = "ok"
               /\ ReadPrompt(disk, listed.ids[i].prompt_id).prompt_id
                      = listed.ids[i].prompt_id
        /\ ~call.has_category =>
               \A p \in ListedIds :
                   ReadPrompt(disk, p).kind = "ok" =>
                       \E i \in 1..Len(listed.ids) :
                           listed.ids[i].prompt_id = p

\* ---------------------------------------------------------------------------
\* render_prompt (lines 168-191). Text is a sequence of pieces, each either
\* whitespace or a word with no whitespace in it.

Whitespace == {" ", "\n"}

\* A template body is literal text and {{ name }} expressions.
Text(pieces) == [kind |-> "text", text |-> pieces, name |-> ""]
Var(name) == [kind |-> "var", text |-> <<>>, name |-> name]

\* The bodies the template files hold:
\*   t1  "Design: {{ intent }}"
\*   t2  "\n {{ intent }} {{ part }} \n"
\*   t3  "{{ part }}"
TemplateText(body) ==
    CASE body = "t1" -> << Text(<<"Design:", " ">>), Var("intent") >>
      [] body = "t2" -> << Text(<<"\n", " ">>), Var("intent"), Text(<<" ">>),
                           Var("part"), Text(<<" ", "\n">>) >>
      [] body = "t3" -> << Var("part") >>

VarNames == {"intent", "part"}

\* The values a context gives: a word, a word between blanks.
Values == { <<"bracket">>, <<" ", "bracket", " ">> }

\* context: a mapping from some of the names to values
Contexts == UNION { [names -> Values] : names \in SUBSET VarNames }

\* template.render(**context) (lines 188-189): text as it is, an expression
\* by the value of its name, and by nothing when the context has no such
\* name (jinja2's default Undefined).
RECURSIVE Render(_, _)
Render(tokens, context) ==
    IF tokens = <<>> THEN <<>>
    ELSE LET t == Head(tokens)
             out == IF t.kind = "text" THEN t.text
                    ELSE IF t.name \in DOMAIN context THEN context[t.name]
                    ELSE <<>>
         IN  out \o Render(Tail(tokens), context)

RECURSIVE StripLeft(_)
StripLeft(s) ==
    IF s # <<>> /\ Head(s) \in Whitespace THEN StripLeft(Tail(s)) ELSE s

RECURSIVE StripRight(_)
StripRight(s) ==
    IF s # <<>> /\ s[Len(s)] \in Whitespace
    THEN StripRight(SubSeq(s, 1, Len(s) - 1)) ELSE s

\* A plausible slip of the trim below: only leading whitespace is removed.
StripLeadingOnly(s) == StripLeft(s)

\* rendered.strip() (line 191)
Strip(s) == StripRight(StripLeft(s))

\* render_prompt(prompt_id, context, use_cache) (lines 168-191): load_prompt,
\* whose exceptions pass through, then render and strip.
RenderPrompt(prompt_id, context, use_cache) ==
    /\ LoadPromptBody(prompt_id, use_cache)
    /\ call' = [op |-> "render_prompt", prompt_id |-> prompt_id,
                use_cache |-> use_cache, context |-> context]
    /\ rendered' =
           IF outcome'.kind = "ok"
           THEN [kind |-> "ok",
                 text |-> Strip(Render(TemplateText(outcome'.obj.template),
                                       context))]
           ELSE [kind |-> outcome'.kind, text |-> <<>>]
    /\ UNCHANGED <<contractVars, listed, threads, schemaVars, startupVars>>

RenderedFiles ==
    { GoodFile(IdLCV, "t1"), GoodFile(IdLCV, "t2"), GoodFile(IdLCV, "t3") }

NextRender ==
    \/ \E c \in Contexts, u \in BOOLEAN : RenderPrompt(IdLCV, c, u)
    \/ \E path \in DiskPaths, content \in RenderedFiles : WriteFile(path, content)
    \/ \E path \in DiskPaths : DeleteFile(path)

SpecRender == Init /\ [][NextRender]_vars

IsRender == call.op = "render_prompt"

Threads == {1, 2}
RacedIds == {IdLCV, IdLCW}

Idle ==
    [pc |-> "idle", prompt_id |-> <<>>, use_cache |-> FALSE, obj |-> NoObj,
     kind |-> "none"]

RacedFiles ==
    { Absent, GoodFile(IdLCV, "t1"), GoodFile(IdLCV, "t2"),
      GoodFile(IdLCW, "t1"), NoTemplateFile(IdLCV) }

InitConcurrent ==
    /\ DefaultContract
    /\ disk \in [DiskPaths -> RacedFiles]
    /\ cache = EmptyCache
    /\ next_obj = 1
    /\ call = [op |-> "init", prompt_id |-> <<>>, use_cache |-> FALSE]
    /\ outcome = NoOutcome
    /\ probed = <<>>
    /\ opened = {}
    /\ served = [p \in PromptIds |-> NoObj]
    /\ reloaded = [p \in PromptIds |-> FALSE]
    /\ clear_phase = "none"
    /\ listed = NoListing
    /\ rendered = NoRender
    /\ threads = [t \in Threads |-> Idle]
    /\ entity = NoEntity
    /\ schema_call = [op |-> "none"]
    /\ schema_error = {}
    /\ InitStartup

\* What the steps of a caller leave alone.
CallerFrame ==
    UNCHANGED <<contractVars, disk, call, outcome, probed, opened, served,
                reloaded, clear_phase, listed, rendered, schemaVars,
                startupVars>>

\* A caller enters load_prompt(prompt_id, use_cache).
Enter(t, prompt_id, use_cache) ==
    /\ threads[t].pc = "idle"
    /\ threads' = [threads EXCEPT ![t] =
                      [Idle EXCEPT !.pc = "check", !.prompt_id = prompt_id,
                                   !.use_cache = use_cache]]
    /\ UNCHANGED <<cache, next_obj>>
    /\ CallerFrame

\* if use_cache and prompt_id in self._cache: (line 107), the membership
\* test
CheckCache(t) ==
    LET th == threads[t] IN
    /\ th.pc = "check"
    /\ threads' = [threads EXCEPT ![t] =
                      IF CacheHit(cache, th.prompt_id, th.use_cache)
                      THEN [th EXCEPT !.pc = "hit"]
                      ELSE [th EXCEPT !.pc = "read"]]
    /\ UNCHANGED <<cache, next_obj>>
    /\ CallerFrame

\* return self._cache[prompt_id] (line 108), the subscript: a dict operation
\* of its own, which raises KeyError when the key is no longer there.
ReadCache(t) ==
    LET th == threads[t] IN
    /\ th.pc = "hit"
    /\ threads' = [threads EXCEPT ![t] =
                      IF cache[th.prompt_id] # NoObj
                      THEN [th EXCEPT !.pc = "done", !.kind = "ok",
                                      !.obj = cache[th.prompt_id]]
                      ELSE [th EXCEPT !.pc = "done", !.kind = "KeyError"]]
    /\ UNCHANGED <<cache, next_obj>>
    /\ CallerFrame

\* Lines 110-161: find, read and validate the file, build the PromptTemplate
\* or raise.
ReadFile(t) ==
    LET th == threads[t]
        r == ReadPrompt(disk, th.prompt_id)
    IN  /\ th.pc = "read"
        /\ threads' = [threads EXCEPT ![t] =
                          IF r.kind = "ok"
                          THEN [th EXCEPT !.pc = "store",
                                          !.obj = [id |-> next_obj,
                                                   prompt_id |-> r.prompt_id,
                                                   template |-> r.template]]
                          ELSE [th EXCEPT !.pc = "done", !.kind = r.kind]]
        /\ next_obj' = IF r.kind = "ok" THEN next_obj + 1 ELSE next_obj
        /\ UNCHANGED cache
        /\ CallerFrame

\* self._cache[prompt_id] = prompt_template; return prompt_template
\* (lines 164-166)
StoreCache(t) ==
    LET th == threads[t] IN
    /\ th.pc = "store"
    /\ cache' = Stored(cache, th.prompt_id, th.obj)
    /\ threads' = [threads EXCEPT ![t] = [th EXCEPT !.pc = "done", !.kind = "ok"]]
    /\ UNCHANGED next_obj
    /\ CallerFrame

NextConcurrent ==
    \/ \E t \in Threads, p \in RacedIds, u \in BOOLEAN : Enter(t, p, u)
    \/ \E t \in Threads : CheckCache(t)
    \/ \E t \in Threads : ReadCache(t)
    \/ \E t \in Threads : ReadFile(t)
    \/ \E t \in Threads : StoreCache(t)

SpecConcurrent == InitConcurrent /\ [][NextConcurrent]_vars

\* clear_cache() (lines 246-248) by another caller, while the two are
\* inside load_prompt.
ClearByCaller ==
    /\ cache' = Cleared(cache)
    /\ UNCHANGED <<next_obj, threads>>
    /\ CallerFrame

NextRace ==
    \/ NextConcurrent
    \/ ClearByCaller

SpecRace == InitConcurrent /\ [][NextRace]_vars

\* prompt_id and template of a PromptTemplate: its content.
Content(obj) == [prompt_id |-> obj.prompt_id, template |-> obj.template]

\* C17: when two concurrent first load_prompt calls of the same prompt_id
\* have returned, the cache holds one entry for the id, with the content a
\* single sequential load_prompt would have stored, both callers got a
\* template with that content (or both the same exception, and no entry),
\* and no other key of the cache was touched.
C17_ConcurrentFirstLoadsAgree ==
    (\A t \in Threads : threads[t].pc = "done")
    /\ threads[1].prompt_id = threads[2].prompt_id =>
        LET p == threads[1].prompt_id
            seq == ReadPrompt(disk, p)
        IN  /\ \A t \in Threads : threads[t].kind = seq.kind
            /\ seq.kind = "ok" =>
                   /\ cache[p] \in {threads[1].obj, threads[2].obj}
                   /\ \A t \in Threads :
                          Content(threads[t].obj) =
                              [prompt_id |-> seq.prompt_id,
                               template |-> seq.template]
            /\ seq.kind # "ok" => cache[p] = NoObj
            /\ \A q \in PromptIds : q # p => cache[q] = NoObj

\* C17 witness: both callers found the cache empty, both read the file and
\* both stored: two PromptTemplate objects were built for "l.c.v", and the
\* cache holds one of them.
C17_Witness ==
    /\ \A t \in Threads :
           /\ threads[t].pc = "done" /\ threads[t].use_cache
           /\ threads[t].prompt_id = IdLCV /\ threads[t].kind = "ok"
    /\ threads[1].obj.id # threads[2].obj.id
    /\ cache[IdLCV] = threads[1].obj

\* C28: a clear_cache() by one caller, interleaved at any point with a
\* load_prompt(p, use_cache=True) by another, cannot make that call fail:
\* the call returns the cached template or goes to the files and returns or
\* raises what they give, also when the clear falls between the membership
\* test and the cache read. Fails: then the read raises KeyError.
C28_ClearNeverFailsLoad ==
    \A t \in Threads :
        threads[t].pc = "done" /\ threads[t].use_cache =>
            \/ threads[t].kind = "ok"
            \/ threads[t].kind = ReadPrompt(disk, threads[t].prompt_id).kind

\* ---------------------------------------------------------------------------
\* Schema entities: MaterialProperties and MeshSettings
\* (agent_simulation.py), ComponentPackage (agent_component.py) and
\* AssemblyPackage (agent_assembly.py). A constructor argument, and a field
\* of an entity, is a set: {} when not given (None for an optional field),
\* {v} for the value v.

MaxNumber == 3
Numbers == (-1)..MaxNumber

\* The values tried for a field whose only bound is gt=0.
Signs == {-1, 0, 1}

\* poissons_ratio is counted in quarters: 2 is 0.5 (le=0.5, line 158).
PoissonMax == 2

Opt(S) == {{}} \cup { {v} : v \in S }
Value(arg) == CHOOSE v \in arg : TRUE

\* A plausible slip of gt=0: ge=0.
NonNegative(v) == v >= 0

\* gt=0 (lines 151, 164, 170, 176, 196)
Positive(v) == v > 0

\* ge=0, le=0.5 (lines 157-158)
PoissonAllowed(v) == 0 <= v /\ v <= PoissonMax

\* ge=1, le=2 (lines 207-208)
OrderAllowed(v) == 1 <= v /\ v <= 2

\* The arguments a caller can pass. ultimate_strength_mpa, declared as
\* yield_strength_mpa is, and the two optional fields without a constraint
\* (thermal_conductivity_w_mk, specific_heat_j_kgk) are left at None.
MaterialArgs ==
    [material_name : Opt({"steel"}),
     youngs_modulus_gpa : Opt(Signs),
     poissons_ratio : Opt(Numbers),
     density_kg_m3 : Opt(Signs),
     yield_strength_mpa : Opt(Signs)]

\* One line of a ValidationError: the field, when its check failed.
Named(failed, field) == IF failed THEN {field} ELSE {}

\* The fields the ValidationError of MaterialProperties(**args) names: a
\* required field that is missing, a value outside its bounds.
MaterialErrors(args) ==
    Named(args.material_name = {}, "material_name")
    \cup Named(\/ args.youngs_modulus_gpa = {}
               \/ ~Positive(Value(args.youngs_modulus_gpa)),
               "youngs_modulus_gpa")
    \cup Named(\/ args.poissons_ratio = {}
               \/ ~PoissonAllowed(Value(args.poissons_ratio)),
               "poissons_ratio")
    \cup Named(\/ args.density_kg_m3 = {}
               \/ ~Positive(Value(args.density_kg_m3)),
               "density_kg_m3")
    \cup Named(/\ args.yield_strength_mpa # {}
               /\ ~Positive(Value(args.yield_strength_mpa)),
               "yield_strength_mpa")

\* refinement_regions keeps its default, the empty list.
MeshArgs == [element_size_mm : Opt(Signs), element_order : Opt(Numbers)]

\* element_order: int = Field(default=1, ...) (lines 204-205)
MeshDefaults(args) ==
    [args EXCEPT !.element_order = IF @ = {} THEN {1} ELSE @]

MeshErrors(args) ==
    Named(\/ args.element_size_mm = {}
          \/ ~Positive(Value(args.element_size_mm)),
          "element_size_mm")
    \cup Named(/\ args.element_order # {}
               /\ ~OrderAllowed(Value(args.element_order)),
               "element_order")

\* A constructor call: the entity when nothing is wrong, else a
\* ValidationError naming the fields and no entity.
Construct(class, args, fields, errors) ==
    /\ schema_call' = [op |-> class, args |-> args]
    /\ schema_error' = errors
    /\ entity' = IF errors = {} THEN [class |-> class, fields |-> fields]
                 ELSE NoEntity
    /\ UNCHANGED <<contractVars, promptVars, listed, rendered, threads,
                   startupVars>>

\* MaterialProperties(**args) (lines 140-187)
ConstructMaterial(args) ==
    Construct("MaterialProperties", args, args, MaterialErrors(args))

\* MeshSettings(**args) (lines 190-209)
ConstructMesh(args) ==
    Construct("MeshSettings", args, MeshDefaults(args), MeshErrors(args))

\* ComponentPackage and AssemblyPackage: the required fields. The fields
\* with a default (schema_version, semantic_tags, bom, generated_at, ...)
\* keep it.
PackageClasses == {"ComponentPackage", "AssemblyPackage"}

\* component_id (agent_component.py line 138), assembly_id
\* (agent_assembly.py line 140)
IdField(class) ==
    IF class = "ComponentPackage" THEN "component_id" ELSE "assembly_id"

Formats == {"step", "stl"}

\* artifact_uris is a mapping, modelled by its set of keys: {{}} is the
\* argument artifact_uris={}, {} is no argument.
PackageArgs ==
    [id : Opt({"c1"}),
     parent_program_id : Opt({"p1"}),
     artifact_uris : Opt(SUBSET Formats),
     validation_status : Opt({"passed", "unknown"})]

\* Field(...) on each of the four: required, of the declared type, and no
\* other constraint (artifact_uris has no min_length, validation_status is
\* a plain str).
PackageErrors(class, args) ==
    Named(args.id = {}, IdField(class))
    \cup Named(args.parent_program_id = {}, "parent_program_id")
    \cup Named(args.artifact_uris = {}, "artifact_uris")
    \cup Named(args.validation_status = {}, "validation_status")

\* ComponentPackage(**args) (agent_component.py lines 124-190),
\* AssemblyPackage(**args) (agent_assembly.py lines 126-198)
ConstructPackage(class, args) ==
    Construct(class, args, args, PackageErrors(class, args))

\* entity.field = value on a MaterialProperties or MeshSettings: the classes
\* are plain BaseModel (no frozen, no validate_assignment), so the value is
\* stored unchecked.
SetField(field, value) ==
    /\ entity.class = "MaterialProperties" \/ entity.class = "MeshSettings"
    /\ field \in DOMAIN entity.fields
    /\ field # "material_name"
    /\ entity' = [entity EXCEPT !.fields[field] = {value}]
    /\ schema_call' = [op |-> "setattr",
                       args |-> [field |-> field, value |-> value]]
    /\ schema_error' = {}
    /\ UNCHANGED <<contractVars, promptVars, listed, rendered, threads,
                   startupVars>>

\* Construction of the entities.
NextSchema ==
    \/ \E args \in MaterialArgs : ConstructMaterial(args)
    \/ \E args \in MeshArgs : ConstructMesh(args)
    \/ \E class \in PackageClasses, args \in PackageArgs :
           ConstructPackage(class, args)

SpecSchema == Init /\ [][NextSchema]_vars

\* Construction, then assignments to the fields of the entity built.
BoundedFields == {"youngs_modulus_gpa", "poissons_ratio", "element_order"}

NextMutation ==
    \/ \E args \in MaterialArgs : ConstructMaterial(args)
    \/ \E args \in MeshArgs : ConstructMesh(args)
    \/ \E field \in BoundedFields, value \in Numbers : SetField(field, value)

SpecMutation == Init /\ [][NextMutation]_vars

\* The declared bounds of the entity held, on the fields that have a value.
WithinBounds(e) ==
    /\ e.class = "MaterialProperties" =>
           /\ Value(e.fields.youngs_modulus_gpa) > 0
           /\ Value(e.fields.poissons_ratio) >= 0
           /\ Value(e.fields.poissons_ratio) <= PoissonMax
           /\ Value(e.fields.density_kg_m3) > 0
           /\ e.fields.yield_strength_mpa # {} =>
                  Value(e.fields.yield_strength_mpa) > 0
    /\ e.class = "MeshSettings" =>
           /\ Value(e.fields.element_size_mm) > 0
           /\ Value(e.fields.element_order) >= 1
           /\ Value(e.fields.element_order) <= 2

\* C18: every schema entity is immutable after validation: in every state
\* after construction the entity satisfies its declared field constraints.
\* An assignment to a field stores the value unchecked, so this fails.
C18_EntityKeepsItsBounds == WithinBounds(entity)

\* C19: MaterialProperties(...) succeeds only when youngs_modulus_gpa > 0,
\* 0 <= poissons_ratio <= 0.5 and density_kg_m3 > 0, MeshSettings(...) only
\* when element_order is 1 or 2 and element_size_mm > 0, and a value outside
\* these bounds makes the construction fail with a ValidationError that
\* names the field.
C19_ConstructionChecksBounds ==
    LET a == schema_call.args
        \* the field is named exactly when it is missing or its value is
        \* not in the range low..high (no upper limit when high < low)
        NamedIffOutside(field, arg, low, high) ==
            field \in schema_error <=>
                \/ arg = {}
                \/ Value(arg) < low
                \/ high >= low /\ Value(arg) > high
    IN
    /\ schema_call.op = "MaterialProperties" \/ schema_call.op = "MeshSettings" =>
           /\ entity.class = schema_call.op <=> schema_error = {}
           /\ schema_error # {} => entity = NoEntity
           /\ schema_error = {} => WithinBounds(entity)
    /\ schema_call.op = "MaterialProperties" =>
           /\ schema_error = {} => entity.fields = a
           /\ NamedIffOutside("youngs_modulus_gpa", a.youngs_modulus_gpa, 1, 0)
           /\ NamedIffOutside("poissons_ratio", a.poissons_ratio, 0, PoissonMax)
           /\ NamedIffOutside("density_kg_m3", a.density_kg_m3, 1, 0)
    /\ schema_call.op = "MeshSettings" =>
           /\ NamedIffOutside("element_size_mm", a.element_size_mm, 1, 0)
           /\ a.element_order # {} =>
                  NamedIffOutside("element_order", a.element_order, 1, 2)
           /\ a.element_order = {} => "element_order" \notin schema_error

\* C19 witness: a MaterialProperties call with a Poisson ratio above 0.5 and
\* a Young's modulus of 0, refused with exactly these two fields named.
C19_Witness ==
    /\ schema_call.op = "MaterialProperties"
    /\ schema_call.args.poissons_ratio = {3}
    /\ schema_call.args.youngs_modulus_gpa = {0}
    /\ schema_error = {"poissons_ratio", "youngs_modulus_gpa"}
    /\ entity = NoEntity

\* C20: a ComponentPackage or AssemblyPackage cannot be constructed with
\* artifact_uris = {}: the construction fails with a ValidationError, as it
\* does with the field missing. The field has no minimum length, so the
\* empty mapping is accepted and this fails.
C20_EmptyArtifactsRejected ==
    schema_call.op \in PackageClasses =>
        /\ schema_call.args.artifact_uris = {} =>
               "artifact_uris" \in schema_error
        /\ schema_call.args.artifact_uris = {{}} =>
               /\ "artifact_uris" \in schema_error
               /\ entity = NoEntity

\* C21: the validation_status of every constructed ComponentPackage and
\* AssemblyPackage is one of passed, warnings, failed, and construction with
\* another string fails with a ValidationError. The field is a plain str, so
\* a package with validation_status = "unknown" is built and this fails.
C21_ValidationStatusEnumerated ==
    schema_call.op = "ComponentPackage" \/ schema_call.op = "AssemblyPackage" =>
        /\ entity.class = schema_call.op =>
               \/ entity.fields.validation_status = {"passed"}
               \/ entity.fields.validation_status = {"warnings"}
               \/ entity.fields.validation_status = {"failed"}
        /\ schema_call.args.validation_status = {"unknown"} =>
               "validation_status" \in schema_error

\* ---- Wire format: a message to JSON text and back ----

\* A Python value and a JSON value: the type and the text of the value.
Py(type, v) == <<"py", type, v>>
Js(type, v) == <<"json", type, v>>
TypeOf(value) == value[2]
TextOf(value) == value[3]
Invalid == Py("invalid", "")

\* class SimulationType(str, Enum): the members, by name
SimulationTypes == {"STATIC_STRESS", "MODAL_ANALYSIS"}

\* The member's name, where its value belongs.
MemberName(member) == member

\* STATIC_STRESS = "static_stress", MODAL_ANALYSIS = "modal_analysis"
MemberValue(member) ==
    IF member = "STATIC_STRESS" THEN "static_stress" ELSE "modal_analysis"

IsMemberValue(v) == v = "static_stress" \/ v = "modal_analysis"

\* SimulationType(v): the member whose value is v
MemberOf(v) == IF v = "static_stress" THEN "STATIC_STRESS" ELSE "MODAL_ANALYSIS"

\* nan and inf, which a float field with no bound accepts
NotFinite(v) == v = "nan" \/ v = "inf"

\* The instants of created_at, in ISO form.
Instants == {"2024-01-01T00:00:00", "2024-01-01T00:00:01"}
IsInstant(v) == v = "2024-01-01T00:00:00" \/ v = "2024-01-01T00:00:01"

\* What a field declared with a type makes of a value given to it: the
\* value, the value converted (a member from its string, a datetime from
\* its ISO text), or a validation error. Any takes every value as it is.
Validate(declared, value) ==
    CASE declared = "Any" -> value
      [] declared = "str" ->
            IF TypeOf(value) = "str" THEN value ELSE Invalid
      [] declared = "float" ->
            IF TypeOf(value) = "float" THEN value ELSE Invalid
      [] declared = "SimulationType" ->
            IF TypeOf(value) = "SimulationType" THEN value
            ELSE IF TypeOf(value) = "str" /\ IsMemberValue(TextOf(value))
                 THEN Py("SimulationType", MemberOf(TextOf(value)))
            ELSE Invalid
      [] declared = "datetime" ->
            IF TypeOf(value) = "datetime" THEN value
            ELSE IF TypeOf(value) = "str" /\ IsInstant(TextOf(value))
                 THEN Py("datetime", TextOf(value))
            ELSE Invalid

\* The JSON form of a value: a member of a str enumeration is its value,
\* a datetime its ISO text, a tuple an array as a list is, nan and inf
\* null.
ToJson(value) ==
    CASE TypeOf(value) = "str" -> Js("string", TextOf(value))
      [] TypeOf(value) = "SimulationType" ->
            Js("string", MemberValue(TextOf(value)))
      [] TypeOf(value) = "datetime" -> Js("string", TextOf(value))
      [] TypeOf(value) = "float" ->
            IF NotFinite(TextOf(value)) THEN Js("null", "null")
            ELSE Js("number", TextOf(value))
      [] TypeOf(value) = "list" -> Js("array", TextOf(value))
      [] TypeOf(value) = "tuple" -> Js("array", TextOf(value))

\* The Python value a JSON value parses to.
FromJson(j) ==
    CASE TypeOf(j) = "string" -> Py("str", TextOf(j))
      [] TypeOf(j) = "number" -> Py("float", TextOf(j))
      [] TypeOf(j) = "array" -> Py("list", TextOf(j))
      [] TypeOf(j) = "null" -> Py("NoneType", "null")

\* The value under the one key of a free-form mapping (design_constraints,
\* analysis_settings: dict[str, Any]).
FreeValues ==
    {Py("str", "steel"), Py("list", "10,20"), Py("tuple", "10,20"),
     Py("datetime", "2024-01-01T00:00:00"), Py("float", "2.5")}

\* ComponentIntent: the fields with a default keep it, the other required
\* strings are given as component_id is.
IntentArgs ==
    [component_id : {Py("str", "c1"), Py("float", "1.0")},
     created_at : {Py("datetime", v) : v \in Instants},
     design_constraints : FreeValues]

IntentFields(a) ==
    [component_id |-> Validate("str", a.component_id),
     created_at |-> Validate("datetime", a.created_at),
     design_constraints |-> Validate("Any", a.design_constraints)]

IntentErrors(a) ==
    Named(IntentFields(a).component_id = Invalid, "component_id")
    \cup Named(IntentFields(a).created_at = Invalid, "created_at")

\* SimulationRequest: loads holds one Load, modelled by its magnitude; the
\* other required fields are given as simulation_id is.
RequestArgs ==
    [simulation_id : {Py("str", "s1")},
     simulation_type : {Py("SimulationType", "STATIC_STRESS"),
                        Py("SimulationType", "MODAL_ANALYSIS"),
                        Py("str", "modal_analysis"), Py("str", "bogus")},
     magnitude : {Py("float", "100.0"), Py("float", "nan"),
                  Py("float", "inf")},
     analysis_settings : FreeValues]

RequestFields(a) ==
    [simulation_id |-> Validate("str", a.simulation_id),
     simulation_type |-> Validate("SimulationType", a.simulation_type),
     magnitude |-> Validate("float", a.magnitude),
     analysis_settings |-> Validate("Any", a.analysis_settings)]

RequestErrors(a) ==
    Named(RequestFields(a).simulation_id = Invalid, "simulation_id")
    \cup Named(RequestFields(a).simulation_type = Invalid, "simulation_type")
    \cup Named(RequestFields(a).magnitude = Invalid, "magnitude")

\* ComponentIntent(**args) (agent_component.py lines 13-121)
ConstructIntent(args) ==
    Construct("ComponentIntent", args, IntentFields(args), IntentErrors(args))

\* SimulationRequest(**args) (agent_simulation.py lines 216-283)
ConstructRequest(args) ==
    Construct("SimulationRequest", args, RequestFields(args),
              RequestErrors(args))

\* model_dump_json(): each field in its JSON form
Dump(class, fields) ==
    IF class = "ComponentIntent"
    THEN [component_id |-> ToJson(fields.component_id),
          created_at |-> ToJson(fields.created_at),
          design_constraints |-> ToJson(fields.design_constraints)]
    ELSE [simulation_id |-> ToJson(fields.simulation_id),
          simulation_type |-> ToJson(fields.simulation_type),
          magnitude |-> ToJson(fields.magnitude),
          analysis_settings |-> ToJson(fields.analysis_settings)]

\* The arguments model_validate_json() gives the fields: the parsed values.
Parsed(class, wire) ==
    IF class = "ComponentIntent"
    THEN [component_id |-> FromJson(wire.component_id),
          created_at |-> FromJson(wire.created_at),
          design_constraints |-> FromJson(wire.design_constraints)]
    ELSE [simulation_id |-> FromJson(wire.simulation_id),
          simulation_type |-> FromJson(wire.simulation_type),
          magnitude |-> FromJson(wire.magnitude),
          analysis_settings |-> FromJson(wire.analysis_settings)]

FieldsOf(class, args) ==
    IF class = "ComponentIntent" THEN IntentFields(args)
    ELSE RequestFields(args)

ErrorsOf(class, args) ==
    IF class = "ComponentIntent" THEN IntentErrors(args)
    ELSE RequestErrors(args)

\* type(entity).model_validate_json(entity.model_dump_json()): the message
\* read back, or the ValidationError of the fields the text does not fit.
RoundTrip ==
    /\ entity.class = "ComponentIntent" \/ entity.class = "SimulationRequest"
    /\ LET wire == Dump(entity.class, entity.fields)
           back == Parsed(entity.class, wire)
           errors == ErrorsOf(entity.class, back)
       IN /\ schema_call' = [op |-> "round_trip", class |-> entity.class,
                             args |-> entity.fields, wire |-> wire]
          /\ schema_error' = errors
          /\ entity' = IF errors = {}
                       THEN [class |-> entity.class,
                             fields |-> FieldsOf(entity.class, back)]
                       ELSE NoEntity
    /\ UNCHANGED <<contractVars, promptVars, listed, rendered, threads,
                   startupVars>>

NextRoundTrip ==
    \/ \E args \in IntentArgs : ConstructIntent(args)
    \/ \E args \in RequestArgs : ConstructRequest(args)
    \/ RoundTrip

SpecRoundTrip == Init /\ [][NextRoundTrip]_vars

\* Every value of the message has a JSON form that reads back as itself:
\* the numbers are finite, the free-form values are strings, lists and
\* finite numbers.
IsJsonValue(value) ==
    \/ TypeOf(value) = "str"
    \/ TypeOf(value) = "list"
    \/ TypeOf(value) = "float" /\ ~NotFinite(TextOf(value))

JsonSafe(class, fields) ==
    IF class = "ComponentIntent" THEN IsJsonValue(fields.design_constraints)
    ELSE /\ IsJsonValue(fields.analysis_settings)
         /\ ~NotFinite(TextOf(fields.magnitude))

\* The message read back is the message written.
ReadBackEqual ==
    entity = [class |-> schema_call.class, fields |-> schema_call.args]

\* The enumeration field of the text is the literal string of its member.
EnumAsLiteral ==
    schema_call.class = "SimulationRequest" =>
        schema_call.wire.simulation_type =
            Js("string",
               MemberValue(TextOf(schema_call.args.simulation_type)))

\* C22 as stated: every Intent, Package, Request and Report built from valid
\* field inputs, written to its JSON form and read back, equals the
\* original, its enumeration fields carried as their literal strings.
\* Violated: a tuple or a datetime in a free-form mapping reads back as a
\* list or a string, a nan or inf magnitude is written as null and refused.
C22_AsStated ==
    schema_call.op = "round_trip" => ReadBackEqual /\ EnumAsLiteral

\* C22 as amended: a message built from valid field inputs whose numbers
\* are finite and whose free-form values are JSON values (strings, lists,
\* finite numbers),
\* written to its JSON form and read back, equals the original, its
\* enumeration fields carried as their literal strings.
C22_RoundTripOfJsonValues ==
    schema_call.op = "round_trip"
    /\ JsonSafe(schema_call.class, schema_call.args) =>
        ReadBackEqual /\ EnumAsLiteral

\* C22 witness: a request built from the string "modal_analysis", a finite
\* magnitude and a list in analysis_settings was written and read back.
C22_Witness ==
    /\ schema_call.op = "round_trip"
    /\ schema_call.class = "SimulationRequest"
    /\ schema_call.args.simulation_type = Py("SimulationType", "MODAL_ANALYSIS")
    /\ schema_call.args.analysis_settings = Py("list", "10,20")
    /\ schema_call.wire.simulation_type = Js("string", "modal_analysis")
    /\ entity.class = "SimulationRequest"

(***************************************************************************)
(* The inference endpoint: model discovery, client and config              *)
(***************************************************************************)

\* What GET {api_base}/v1/models meets: no connection, a status other than
\* 200, a 200 with an empty model list, a 200 naming the model loaded.
Statuses == {"unreachable", "error_status", "no_models", "serving"}
ServedModel == "m1"
Discovered(model) == [kind |-> "ok", model |-> model]
DiscoveryFailed == [kind |-> "RuntimeError", model |-> ""]

\* get_available_model(api_base): the id of the first model, RuntimeError
\* in every other case
GetAvailableModel(srv, api_base) ==
    IF srv[api_base] = "serving" THEN Discovered(ServedModel)
    ELSE DiscoveryFailed

\* os.environ.get(name, default)
EnvironGet(env, name, default) ==
    IF env[name] = {} THEN default ELSE Value(env[name])

\* A result: what was returned (a client, a config mapping, a bool) or the
\* error raised, with the address and the model it carries.
StartupResult(kind, api_base, model) ==
    [kind |-> kind, api_base |-> api_base, model |-> model]

\* A call: its arguments, the endpoint variable as the call found it, and
\* how the model discovery it ran ended ("none" when it ran none).
StartupCall(op, api_base, model_name, endpoint_env, discovery) ==
    [op |-> op, api_base |-> api_base, model_name |-> model_name,
     endpoint_env |-> endpoint_env, discovery |-> discovery]

StartupFrame ==
    UNCHANGED <<contractVars, promptVars, listed, rendered, threads,
                schemaVars, environ, server, roots>>

\* create_llm_client(api_base, model_name): the address is the argument,
\* else OPENAI_API_BASE, else the default; the model is the argument, else
\* LLM_MODEL_NAME, else the one discovered, and a failed discovery is
\* raised to the caller.
CreateLlmClient(api_base, model_name) ==
    LET base == IF api_base = {}
                THEN EnvironGet(environ, "OPENAI_API_BASE", ClientDefaultBase)
                ELSE Value(api_base)
        named == IF model_name # {} THEN model_name
                 ELSE environ["LLM_MODEL_NAME"]
        found == GetAvailableModel(server, base)
    IN /\ startup_call' =
              StartupCall("create_llm_client", api_base, model_name,
                          environ["OPENAI_API_BASE"],
                          IF named # {} THEN "none" ELSE found.kind)
       /\ startup_result' =
              IF named # {} THEN StartupResult("client", base, Value(named))
              ELSE IF found.kind = "ok"
                   THEN StartupResult("client", base, found.model)
              ELSE StartupResult("RuntimeError", base, "")
       /\ StartupFrame

\* get_llm_config(): the address is LLM_API_BASE, else the default; the
\* model is the one discovered, and "default" when the discovery fails.
GetLlmConfig ==
    LET base == EnvironGet(environ, "LLM_API_BASE", ConfigDefaultBase)
        found == GetAvailableModel(server, base)
    IN /\ startup_call' =
              StartupCall("get_llm_config", {}, {}, environ["LLM_API_BASE"],
                          found.kind)
       /\ startup_result' =
              StartupResult("config", base,
                            IF found.kind = "ok" THEN found.model
                            ELSE "default")
       /\ StartupFrame

\* check_llm_availability(api_base): True when the discovery succeeds,
\* False when it raises.
CheckLlmAvailability(api_base) ==
    LET base == IF api_base = {}
                THEN EnvironGet(environ, "OPENAI_API_BASE", ClientDefaultBase)
                ELSE Value(api_base)
        found == GetAvailableModel(server, base)
    IN /\ startup_call' =
              StartupCall("check_llm_availability", api_base, {},
                          environ["OPENAI_API_BASE"], found.kind)
       /\ startup_result' =
              StartupResult(IF found.kind = "ok" THEN "True" ELSE "False",
                            base, found.model)
       /\ StartupFrame

\* The process environment and the servers, as the code finds them.
Setenv(name, value) ==
    /\ environ' = [environ EXCEPT ![name] = value]
    /\ UNCHANGED <<contractVars, promptVars, listed, rendered, threads,
                   schemaVars, server, roots, startup_call, startup_result>>

ServerBecomes(api_base, status) ==
    /\ server' = [server EXCEPT ![api_base] = status]
    /\ UNCHANGED <<contractVars, promptVars, listed, rendered, threads,
                   schemaVars, environ, roots, startup_call, startup_result>>

NextLlm ==
    \/ \E value \in Opt({EnvBase}) : Setenv("OPENAI_API_BASE", value)
    \/ \E value \in Opt({EnvBase}) : Setenv("LLM_API_BASE", value)
    \/ \E value \in Opt({"m-env"}) : Setenv("LLM_MODEL_NAME", value)
    \/ \E api_base \in Bases, status \in Statuses :
           ServerBecomes(api_base, status)
    \/ \E api_base \in Opt({ArgBase}), model_name \in Opt({"m-arg"}) :
           CreateLlmClient(api_base, model_name)
    \/ GetLlmConfig
    \/ \E api_base \in Opt({ArgBase}) : CheckLlmAvailability(api_base)

SpecLlm == Init /\ [][NextLlm]_vars

\* The operations that need the model identifier for what they return.
NeedsModel ==
    \/ startup_call.op = "create_llm_client"
    \/ startup_call.op = "get_llm_config"

Returned ==
    \/ startup_result.kind = "client"
    \/ startup_result.kind = "config"

\* C23 as stated: whenever model discovery fails (server unreachable,
\* non-200 status, empty model list), the operation that required the
\* model identifier fails too, and none continues with a placeholder
\* identifier. Violated by get_llm_config, which returns model "default".
C23_DiscoveryFailurePropagates ==
    NeedsModel /\ startup_call.discovery = "RuntimeError" =>
        /\ ~Returned
        /\ startup_result.model # "default"

\* C24 as stated: with no api_base argument and the endpoint environment
\* variable unset, creating an LLM client or LLM config fails instead of
\* proceeding against a default address. Violated: both return, with the
\* address written in the code.
C24_MissingEndpointIsFatal ==
    (/\ NeedsModel
     /\ startup_call.api_base = {}
     /\ startup_call.endpoint_env = {}) =>
        /\ ~Returned
        /\ startup_result.api_base # ClientDefaultBase
        /\ startup_result.api_base # ConfigDefaultBase

(***************************************************************************)
(* Construction of the prompt engine                                       *)
(***************************************************************************)

\* What the filesystem holds at a path: nothing, a directory, a regular
\* file. Path.exists() is true of the last two.
RootStates == {"missing", "dir", "file"}
PathExists(state) == state # "missing"

\* The values of PROMPTS_DIR: a path, and the empty string.
EmptyString == <<>>
PromptsDirValues == {EnvRoot, EmptyString}

\* PromptManager(prompts_dir): the root is the argument, else a non-empty
\* PROMPTS_DIR, else ValueError; FileNotFoundError when nothing exists at
\* the root; else the engine, its cache empty.
EngineResult(kind, prompts_dir, found) ==
    [kind |-> kind, prompts_dir |-> prompts_dir, found |-> found]

ConstructEngine(prompts_dir) ==
    LET env_override == environ["PROMPTS_DIR"]
        chosen == IF prompts_dir # {} THEN prompts_dir
                  ELSE IF env_override # {} /\ env_override # {EmptyString}
                       THEN env_override
                  ELSE {}
    IN /\ startup_call' = [op |-> "PromptManager", prompts_dir |-> prompts_dir,
                           env_override |-> env_override, roots |-> roots]
       /\ startup_result' =
              IF chosen = {} THEN EngineResult("ValueError", {}, "missing")
              ELSE IF ~PathExists(roots[Value(chosen)])
                   THEN EngineResult("FileNotFoundError", chosen, "missing")
              ELSE EngineResult("engine", chosen, roots[Value(chosen)])
       /\ StartupFrame

RootBecomes(root, state) ==
    /\ roots' = [roots EXCEPT ![root] = state]
    /\ UNCHANGED <<contractVars, promptVars, listed, rendered, threads,
                   schemaVars, environ, server, startup_call, startup_result>>

NextEngineInit ==
    \/ \E value \in Opt(PromptsDirValues) : Setenv("PROMPTS_DIR", value)
    \/ \E root \in Roots, state \in RootStates : RootBecomes(root, state)
    \/ \E prompts_dir \in Opt({ArgRoot}) : ConstructEngine(prompts_dir)

SpecEngineInit == Init /\ [][NextEngineInit]_vars

\* C25 as stated: constructing a PromptManager with no prompts_dir argument
\* and no PROMPTS_DIR value fails, constructing it with a directory that
\* does not exist fails, an explicit prompts_dir takes priority over
\* PROMPTS_DIR, and no engine exists unless its prompts directory existed
\* at construction. Violated in its last part: the engine is constructed
\* on a path that holds a regular file.
C25_PromptsRootRequired ==
    startup_call.op = "PromptManager" =>
        /\ (startup_call.prompts_dir = {} /\ startup_call.env_override = {}
               => startup_result.kind = "ValueError")
        /\ (startup_call.prompts_dir # {}
            /\ startup_call.roots[ArgRoot] = "missing"
               => startup_result.kind = "FileNotFoundError")
        /\ (startup_call.prompts_dir # {} /\ startup_result.kind = "engine"
               => startup_result.prompts_dir = startup_call.prompts_dir)
        /\ (startup_result.kind = "engine" => startup_result.found = "dir")

(***************************************************************************)
(* The engine under every operation                                        *)
(***************************************************************************)

\* The files written while the engine runs: templates of two versions of
\* one name, and a file with no template block.
EngineFiles ==
    { GoodFile(IdLCV, "t1"), GoodFile(IdLCW, "t1"), NoTemplateFile(IdLCV) }

\* The paths written: the first and the last candidate location.
EnginePaths ==
    { SearchPaths(<<"l">>, <<"c">>)[1], SearchPaths(<<"l">>, <<"c">>)[3] }

EngineIds == {IdL, IdLCV, IdLCW}
EmptyContext == [name \in {} |-> <<>>]

NextEngine ==
    \/ \E p \in EngineIds, u \in BOOLEAN : LoadPrompt(p, u)
    \/ RenderPrompt(IdLCV, EmptyContext, TRUE)
    \/ ListPrompts(FALSE, <<>>)
    \/ ClearCache
    \/ \E path \in EnginePaths, content \in EngineFiles :
           WriteFile(path, content)
    \/ \E path \in EnginePaths : DeleteFile(path)

SpecEngine == Init /\ [][NextEngine]_vars

\* C26: after any sequence of load_prompt (with either use_cache),
\* render_prompt, list_prompts and clear_cache calls and any changes to the
\* files, every cache entry under key k holds a template whose
\* metadata.prompt_id is k.
C26_CacheKeyIsDeclaredId ==
    \A k \in PromptIds : cache[k] # NoObj => cache[k].prompt_id = k

\* C26 witness: both versions are cached, each under its own id, and the
\* last call, a use_cache=False load, met a file declaring the other id.
C26_Witness ==
    /\ IsLoad /\ ~call.use_cache
    /\ outcome.kind = "PromptIdMismatch"
    /\ cache[IdLCV].prompt_id = IdLCV
    /\ cache[IdLCW].prompt_id = IdLCW

\* C27: a load_prompt call that fails (invalid id, not found, malformed
\* file, id mismatch) leaves the cache as it was, so a use_cache=False call
\* that fails keeps the entry an earlier call stored, and a later
\* use_cache=True call of the id returns that entry.
C27_FailedLoadKeepsCache ==
    [][ call'.op = "load_prompt" =>
          /\ outcome'.kind # "ok" => cache' = cache
          /\ call'.use_cache /\ cache[call'.prompt_id] # NoObj =>
                 /\ outcome'.kind = "ok"
                 /\ outcome'.obj = cache[call'.prompt_id]
                 /\ cache' = cache ]_vars

\* C27 witness: a use_cache=False call failed on a file with no template
\* block while the entry of its id is still in the cache.
C27_Witness ==
    /\ IsLoad /\ ~call.use_cache
    /\ outcome.kind = "MalformedPromptFile"
    /\ cache[call.prompt_id] # NoObj
    /\ cache[call.prompt_id].prompt_id = call.prompt_id

\* An id of four parts: its name is the two middle parts.
IdLABV == <<"l", ".", "a", ".", "b", ".", "v">>

\* C30: the locations load_prompt searches do not depend on the version
\* segment: the name is the middle parts joined by dots (the second part of
\* a two-part id), so two ids differing in the last segment only are
\* searched at the same three paths, and with an empty cache at most one of
\* them loads.
C30_VersionNotInLocation ==
    /\ Name(Split(IdLCV)) = <<"c">>
    /\ Name(Split(IdLC)) = <<"c">>
    /\ Name(Split(IdLABV)) = <<"a", ".", "b">>
    /\ Locations(IdLCV) = Locations(IdLCW)
    /\ IsLoad /\ probed # <<>> =>
           probed = SubSeq(SearchPaths(<<"l">>, <<"c">>), 1, Len(probed))
    /\ ~(/\ ReadPrompt(disk, IdLCV).kind = "ok"
         /\ ReadPrompt(disk, IdLCW).kind = "ok")

\* C30 witness: the file found for both ids declares l.c.v, and the load of
\* l.c.w from the files failed on it.
C30_Witness ==
    /\ call = [op |-> "load_prompt", prompt_id |-> IdLCW, use_cache |-> FALSE]
    /\ outcome.kind = "PromptIdMismatch"
    /\ ReadPrompt(disk, IdLCV).kind = "ok"
    /\ ReadPrompt(disk, IdLCV).opened = opened

====
